---- MODULE Spec2Model ----
(***************************************************************************)
(* Model of the cry-analysis core of dababy (src/src/lib/cryDetection.ts): *)
(*   - CryDetectionEngine: the streaming detector driven by processSample, *)
(*     and its estimateF0 on its own,                                      *)
(*   - CryDiagnosisEngine.generateDiagnosis: the alert-to-diagnosis map,   *)
(*   - CryStorage: the capped log and the audio slots kept in localStorage,*)
(* and of the two components that use it: the recording cycle and          *)
(* processAudioChunk of ContinuousMonitor, and the loading effect and      *)
(* Recent Cries list of CryAnalytics.                                      *)
(*                                                                         *)
(* Audio samples are integers in units of 1/AmpScale (0.25), values that   *)
(* Float32Array holds exactly, so sums of products are exact and every     *)
(* comparison the code makes on them is decided by integer arithmetic.     *)
(***************************************************************************)
EXTENDS Integers, Sequences, FiniteSets, Bags, TLC

VARIABLES
    isDetectingCry,      \* CryDetectionEngine.isDetectingCry
    detectionStartTime,  \* CryDetectionEngine.detectionStartTime (NoTime = null)
    analysisBuffer,      \* CryDetectionEngine.analysisBuffer, a sequence of blocks
    now,                 \* the wall clock read by Date.now(), in ms
    callbackCount,       \* how often onCryDetected has been invoked so far
    last,                \* what the latest processSample call did
    run,                 \* which blocks have been fed since construction
    result,              \* the DetectionResult handed to generateDiagnosis
    diagnosis,           \* the CryDiagnosis it returned
    localStorage,        \* the persisted log and the audio slots, by key
    pc,                  \* per browsing context: idle, or inside saveCry
    limited,             \* per browsing context: the list saveCry will write
    call,                \* per browsing context: the save call under way
    readers,             \* FileReader loads started and not yet delivered
    nextId,              \* the next unused cry id
    stLast,              \* what the latest CryStorage step did
    appended,            \* ids whose saveCry has returned, in order
    issued,              \* the instances passed to saveCry so far
    cleared,             \* what the latest clearAllCries left to check
    audioWritten,        \* audio writes completed and not cleared since
    estimate,            \* a signal and rate handed to estimateF0, and its result
    isMonitoring,        \* the parent's isMonitoring state, ContinuousMonitor's prop
    mediaRecorder,       \* mediaRecorderRef.current: its state, its queued events
                         \* and the isMonitoring its handlers closed over
    recordingChunks,     \* recordingChunks.current
    analysisInterval,    \* whether analysisIntervalRef.current holds a timer
    onstop,              \* where the onstop handler stands
    processed,           \* what the latest processAudioChunk call did
    selectedTimeframe,   \* CryAnalytics state: '1h', '6h', '24h' or 'all'
    analyticsCries,      \* CryAnalytics state cries: the filtered list
    analytics,           \* CryAnalytics state analytics: null or the summary
    effect               \* what the latest run of the loading effect did

vars == <<isDetectingCry, detectionStartTime, analysisBuffer, now,
          callbackCount, last, run, result, diagnosis,
          localStorage, pc, limited, call, readers, nextId, stLast,
          appended, issued, cleared, audioWritten, estimate,
          isMonitoring, mediaRecorder, recordingChunks, analysisInterval,
          onstop, processed,
          selectedTimeframe, analyticsCries, analytics, effect>>

storeVars == <<localStorage, pc, limited, call, readers, nextId, stLast,
               appended, issued, cleared, audioWritten>>

detectorVars == <<isDetectingCry, detectionStartTime, analysisBuffer, now,
                  callbackCount, last, run>>

diagVars == <<result, diagnosis>>

\* ContinuousMonitor: the prop, the refs and the handler positions
monitorVars == <<isMonitoring, mediaRecorder, recordingChunks,
                 analysisInterval, onstop, processed>>

\* CryAnalytics: its React state and the outcome of its effect
analyticsVars == <<selectedTimeframe, analyticsCries, analytics, effect>>

\* the variables of the specifications of single functions and components
extraVars == <<estimate, monitorVars, analyticsVars>>

-----------------------------------------------------------------------------
(* Bounds of the model *)

AmpScale == 4         \* sample values are multiples of 1/AmpScale
ShortLen == 30        \* samples per block
MaxBlocks == 22       \* longest buffer explored
TickMs == 100         \* granularity of the wall clock
MaxTicks == 5         \* clock ticks explored
MaxCallbacks == 2     \* confirmations explored per detector
MaxAlerts == 3        \* longest alerts list handed to generateDiagnosis
MaxCries == 2         \* save calls explored on the shared store
MaxLogged == 1002     \* save calls explored on the long log
MaxSignalLen == 11    \* samples of a signal handed to estimateF0 on its own
MaxStored == 12       \* cries in the log the analytics view is opened on

(* Program constants *)

NoTime == -1          \* detectionStartTime = null
CryThresholdPct == 10 \* cryThreshold = 0.1, in hundredths
MinF0 == 300
MaxF0 == 1200
MinCentroid == 500
MaxFFT == 2048
LoudGateMs == 500
LoudGateBlocks == 20
QuietGateMs == 300
QuietGateBlocks == 10
MinDurationTenths == 3  \* validateCryPattern: duration >= 0.3

-----------------------------------------------------------------------------
(* Arithmetic helpers *)

\* sum of the terms of a sequence, the accumulation loops of the source.  It
\* is taken as the size of the bag that holds terms[i] + AmpScale^2 copies of
\* each i: samples lie strictly inside full scale, so every term, a sample or
\* a product of two, is above -AmpScale^2 and every count is positive.
SumOver(terms) ==
    IF terms = <<>> THEN 0
    ELSE BagCardinality([i \in DOMAIN terms |-> terms[i] + AmpScale * AmpScale])
           - AmpScale * AmpScale * Len(terms)

\* the elements of a sequence
Range(list) == {list[i] : i \in 1..Len(list)}

RECURSIVE Concat(_)
\* the combinedAudio of a buffer: its blocks laid end to end in buffer order
Concat(buffer) ==
    IF buffer = <<>> THEN <<>>
    ELSE Concat(SubSeq(buffer, 1, Len(buffer) - 1)) \o buffer[Len(buffer)]

-----------------------------------------------------------------------------
(* The audio blocks fed to the detector *)

Slow(n)  == [i \in 1..n |-> IF ((i - 1) \div 3) % 2 = 0 THEN 2 ELSE -2]
Click(n) == [i \in 1..n |-> IF i = 1 THEN 3 ELSE 0]
Hum(n)   == [i \in 1..n |-> 2]
Faint(n) == [i \in 1..n |-> IF i = 1 THEN 1 ELSE 0]

LoudBlocks == {Slow(ShortLen), Hum(ShortLen), Click(ShortLen)}
QuietBlocks == {Faint(ShortLen)}
Blocks == LoudBlocks \cup QuietBlocks

SampleRates == {1200, 1300}

\* The sounds fed during one accumulation: a steady sound, every block
\* repeating the one before it, possibly after a click at the onset.
SteadySound(buffer, audioData) ==
    \/ audioData = buffer[Len(buffer)]
    \/ Len(buffer) = 1 /\ buffer[1] = Click(ShortLen)

-----------------------------------------------------------------------------
(* CryDetectionEngine: signal measures *)

SumSq(signal) == SumOver([i \in 1..Len(signal) |-> signal[i] * signal[i]])

RmsAboveThreshold_Tenth(signal) ==
    /\ Len(signal) > 0
    /\ SumSq(signal) * 100 * 100 > AmpScale * AmpScale * Len(signal)

\* calculateRMS(signal) > cryThreshold.  rms = sqrt(sum/len) of samples in
\* units of 1/AmpScale; an empty signal gives NaN, for which > is false.
RmsAboveThreshold(signal) ==
    /\ Len(signal) > 0
    /\ SumSq(signal) * 100 * 100
         > CryThresholdPct * CryThresholdPct * AmpScale * AmpScale * Len(signal)

\* the autocorrelation sum of estimateF0 at one lag
Correlation(signal, period) ==
    SumOver([i \in 1..(Len(signal) - period) |-> signal[i] * signal[i + period]])

RECURSIVE ScanPeriods(_, _, _, _, _)
\* the for loop of estimateF0: returns bestPeriod
ScanPeriods(signal, period, maxPeriod, maxCorrelation, bestPeriod) ==
    IF period <= maxPeriod /\ 2 * period < Len(signal)
    THEN LET correlation == Correlation(signal, period)
         IN IF correlation > maxCorrelation
            THEN ScanPeriods(signal, period + 1, maxPeriod, correlation, period)
            ELSE ScanPeriods(signal, period + 1, maxPeriod, maxCorrelation, bestPeriod)
    ELSE bestPeriod

BestPeriod_OneMore(signal, sampleRate) ==
    ScanPeriods(signal, sampleRate \div MaxF0, sampleRate \div MinF0 + 1, 0, 0)

\* minPeriod and maxPeriod, and the loop started with no best lag
BestPeriod(signal, sampleRate) ==
    ScanPeriods(signal, sampleRate \div MaxF0, sampleRate \div MinF0, 0, 0)

\* estimateF0 as the fraction num/den: sampleRate/bestPeriod, or 0
estimateF0(signal, sampleRate) ==
    LET bestPeriod == BestPeriod(signal, sampleRate)
    IN IF bestPeriod > 0 THEN [num |-> sampleRate, den |-> bestPeriod]
                         ELSE [num |-> 0, den |-> 1]

F0AtLeast(f0, hz) == f0.num >= hz * f0.den
F0AtMost(f0, hz) == f0.num <= hz * f0.den

IsConstant(signal) == \A i \in 1..Len(signal) : signal[i] = signal[1]

IsSilent(signal) == \A i \in 1..Len(signal) : signal[i] = 0

\* calculateSpectralCentroid.  The loop runs over all fftSize bins of the DFT
\* of a real signal, whose magnitudes satisfy |X[N-i]| = |X[i]| while the bin
\* frequencies i*sr/N and (N-i)*sr/N add up to sr, so that
\*     centroid = (sr/2) * (1 - |X[0]| / sum |X[i]|),   X[0] = sum of samples.
\* Hence: 0 for a silent signal (magnitudeSum = 0) and for a constant one (all
\* magnitude in bin 0); sr/2 when the samples sum to 0; and otherwise a value
\* strictly between 0 and sr/2 that depends on irrational magnitudes: the
\* operator yields the set of outcomes, both sides of MinCentroid, for it.
calculateSpectralCentroid(signal, sampleRate) ==
    LET fftSize == IF Len(signal) < MaxFFT THEN Len(signal) ELSE MaxFFT
        window  == SubSeq(signal, 1, fftSize)
        dc      == SumOver(window)
    IN IF IsSilent(window) THEN {0}
       ELSE IF dc = 0 THEN {sampleRate \div 2}
       ELSE IF IsConstant(window) THEN {0}
       ELSE {c \in {MinCentroid, MinCentroid + 1} : 2 * c < sampleRate}

DurationAtLeastTenths(samples, sampleRate, tenths) ==
    10 * samples >= tenths * sampleRate

\* The measures validateCryPattern and processCryDetection each take of the
\* combined audio of the buffer, as one record.
Features(samples, sampleRate, f0Mean, sumSq, spectralCentroid) ==
    [f0Mean |-> f0Mean,
     sumSq |-> sumSq,
     spectralCentroid |-> spectralCentroid,
     samples |-> samples,
     sampleRate |-> sampleRate]

NoFeatures ==
    [f0Mean |-> [num |-> 0, den |-> 1], sumSq |-> 0, spectralCentroid |-> 0,
     samples |-> 0, sampleRate |-> 0]

validateCryPattern_NoCentroid(measured) ==
    /\ F0AtLeast(measured.f0Mean, MinF0) /\ F0AtMost(measured.f0Mean, MaxF0)
    /\ DurationAtLeastTenths(measured.samples, measured.sampleRate,
                             MinDurationTenths)

\* the return expression of validateCryPattern over those measures
validateCryPattern(measured) ==
    /\ F0AtLeast(measured.f0Mean, MinF0) /\ F0AtMost(measured.f0Mean, MaxF0)
    /\ measured.spectralCentroid > MinCentroid
    /\ DurationAtLeastTenths(measured.samples, measured.sampleRate,
                             MinDurationTenths)

-----------------------------------------------------------------------------
(* CryDetectionEngine: the state machine *)

Idle == ~isDetectingCry /\ detectionStartTime = NoTime /\ analysisBuffer = <<>>

\* the blocks fed since construction: none yet, only blocks of QuietBlocks,
\* only blocks of LoudBlocks, or both
RunAfter(audioData) ==
    LET kind == IF audioData \in LoudBlocks THEN "loud" ELSE "quiet"
    IN IF run = "fresh" \/ run = kind THEN kind ELSE "mixed"

\* (Date.now() - (this.detectionStartTime || 0)), in ms
ElapsedMs(dateNow) ==
    dateNow - (IF detectionStartTime = NoTime THEN 0 ELSE detectionStartTime)

resetDetection_KeepsStart ==
    /\ isDetectingCry' = FALSE
    /\ detectionStartTime' = detectionStartTime
    /\ analysisBuffer' = <<>>

\* resetDetection
resetDetection ==
    /\ isDetectingCry' = FALSE
    /\ detectionStartTime' = NoTime
    /\ analysisBuffer' = <<>>

\* a processSample call that ends without confirming; the caller has set the
\* three detector fields.  measured is what validateCryPattern computed when
\* it was called, NoFeatures when it was not.
NoConfirmation(path, elapsed, blocks, attempted, measured) ==
    /\ callbackCount' = callbackCount
    /\ last' = [path |-> path, ret |-> "false", callbacks |-> 0,
                callbackThrew |-> FALSE,
                elapsed |-> elapsed, blocks |-> blocks,
                attempted |-> attempted, measured |-> measured,
                features |-> NoFeatures]

\* processCryDetection on the buffer, followed by processSample's return true.
\* onCryDetected is the caller's code: it returns or throws.  A throw leaves
\* processCryDetection before resetDetection and leaves processSample as an
\* exception, there being no try/catch on the way.
processCryDetection(path, elapsed, buffer, features, callbackThrows) ==
    /\ callbackCount' = callbackCount + 1
    /\ IF callbackThrows
       THEN /\ isDetectingCry' = isDetectingCry
            /\ detectionStartTime' = detectionStartTime
            /\ analysisBuffer' = buffer
       ELSE resetDetection
    /\ last' = [path |-> path,
                ret |-> IF callbackThrows THEN "exception" ELSE "true",
                callbacks |-> 1,
                callbackThrew |-> callbackThrows,
                elapsed |-> elapsed, blocks |-> Len(buffer),
                attempted |-> TRUE,
                measured |-> features,
                features |-> features]

Measures_SkipsFirst(buffer, sampleRate) ==
    LET combinedAudio == Concat(Tail(buffer))
        f0Mean == estimateF0(combinedAudio, sampleRate)
        sumSq == SumSq(combinedAudio)
    IN [spectralCentroid \in calculateSpectralCentroid(combinedAudio, sampleRate)
           |-> Features(Len(combinedAudio), sampleRate, f0Mean, sumSq,
                        spectralCentroid)]

\* the measures validateCryPattern and processCryDetection compute for a
\* buffer, one record for each outcome of calculateSpectralCentroid
Measures(buffer, sampleRate) ==
    LET combinedAudio == Concat(buffer)
        f0Mean == estimateF0(combinedAudio, sampleRate)
        sumSq == SumSq(combinedAudio)
    IN [spectralCentroid \in calculateSpectralCentroid(combinedAudio, sampleRate)
           |-> Features(Len(combinedAudio), sampleRate, f0Mean, sumSq,
                        spectralCentroid)]

\* the validation attempt shared by the two gated branches of processSample;
\* onReject is what the branch does when validateCryPattern returns false
Validate(path, elapsed, buffer, measures, onReject) ==
    \E spectralCentroid \in DOMAIN measures :
        LET measured == measures[spectralCentroid]
        IN IF validateCryPattern(measured)
           THEN \E callbackThrows \in BOOLEAN :
                   processCryDetection(path, elapsed, buffer, measured,
                                       callbackThrows)
           ELSE /\ onReject
                /\ NoConfirmation(path, elapsed, Len(buffer), TRUE, measured)

LoudGate_Either(elapsed, buffer) ==
    elapsed >= LoudGateMs \/ Len(buffer) > LoudGateBlocks

QuietGate_BlocksOnly(elapsed, buffer) == Len(buffer) > QuietGateBlocks

\* duration >= 0.5 && this.analysisBuffer.length > 20
LoudGate(elapsed, buffer) ==
    elapsed >= LoudGateMs /\ Len(buffer) > LoudGateBlocks

\* duration >= 0.3 && this.analysisBuffer.length > 10
QuietGate(elapsed, buffer) ==
    elapsed >= QuietGateMs /\ Len(buffer) > QuietGateBlocks

push_DropsOldest(buffer, audioData) ==
    IF Len(buffer) >= LoudGateBlocks
    THEN Append(SubSeq(buffer, 2, Len(buffer)), audioData)
    ELSE Append(buffer, audioData)

\* this.analysisBuffer.push(audioData)
push(buffer, audioData) == Append(buffer, audioData)

\* processSample(audioData, sampleRate), called when the wall clock has
\* advanced by one of the steps in clockSteps since the previous call
processSample(audioData, sampleRate, clockSteps) ==
    LET isCryingLevel == RmsAboveThreshold(audioData)
        pushed == push(analysisBuffer, audioData)
        pushedMeasures == Measures(pushed, sampleRate)
        bufferMeasures == Measures(analysisBuffer, sampleRate)
        keep == /\ isDetectingCry' = isDetectingCry
                /\ detectionStartTime' = detectionStartTime
    IN \E dt \in clockSteps :
       LET dateNow == now + dt
           elapsed == ElapsedMs(dateNow)
       IN
       /\ callbackCount < MaxCallbacks
       /\ dateNow <= MaxTicks * TickMs
       /\ now' = dateNow
       /\ run' = RunAfter(audioData)
       /\ UNCHANGED <<diagVars, storeVars, extraVars>>
       /\ IF isCryingLevel /\ ~isDetectingCry
          THEN \* start of potential cry
               /\ isDetectingCry' = TRUE
               /\ detectionStartTime' = dateNow
               /\ analysisBuffer' = <<audioData>>
               /\ NoConfirmation("start", 0, 1, FALSE, NoFeatures)
          ELSE IF isCryingLevel /\ isDetectingCry
          THEN \* continue collecting cry data
               /\ Len(analysisBuffer) < MaxBlocks
               /\ SteadySound(analysisBuffer, audioData)
               /\ IF LoudGate(elapsed, pushed)
                  THEN Validate("loud", elapsed, pushed, pushedMeasures,
                                keep /\ analysisBuffer' = pushed)
                  ELSE /\ keep
                       /\ analysisBuffer' = pushed
                       /\ NoConfirmation("loud", elapsed, Len(pushed), FALSE,
                                         NoFeatures)
          ELSE IF ~isCryingLevel /\ isDetectingCry
          THEN \* end of audio activity
               IF QuietGate(elapsed, analysisBuffer)
               THEN Validate("quiet", elapsed, analysisBuffer, bufferMeasures,
                             resetDetection)
               ELSE /\ resetDetection
                    /\ NoConfirmation("quiet", elapsed, Len(analysisBuffer),
                                      FALSE, NoFeatures)
          ELSE /\ keep
               /\ analysisBuffer' = analysisBuffer
               /\ NoConfirmation("idle", 0, 0, FALSE, NoFeatures)

NoCall ==
    [path |-> "none", ret |-> "false", callbacks |-> 0,
     callbackThrew |-> FALSE, elapsed |-> 0,
     blocks |-> 0, attempted |-> FALSE, measured |-> NoFeatures,
     features |-> NoFeatures]

-----------------------------------------------------------------------------
(* CryDiagnosisEngine.generateDiagnosis *)

Alert(type, severity, confidence, message, description, recommendation) ==
    [type |-> type, severity |-> severity, confidence |-> confidence,
     message |-> message, description |-> description,
     recommendation |-> recommendation]

\* the alerts handed in by the analysis collaborator; confidence in percent
AlertCatalog ==
    { Alert("cri_du_chat", "critical", 90, "Cri-du-chat pattern",
            "High-pitched cat-like cry", "Genetic evaluation"),
      Alert("serious_illness", "critical", 70, "Serious illness pattern",
            "Abnormal cry acoustics", "Emergency care"),
      Alert("hyperphonation", "high", 85, "Hyperphonation",
            "Very high fundamental frequency", "Neurological check"),
      Alert("hoarseness", "high", 60, "Hoarseness",
            "Low harmonics-to-noise ratio", "Examine the larynx"),
      Alert("weak_cry", "medium", 75, "Weak cry",
            "Low cry amplitude", "Check feeding"),
      Alert("hypernasality", "low", 55, "Hypernasality",
            "High nasal energy ratio", "Observe") }

RiskLevels == {"low", "medium", "high", "critical"}

CryFeatures ==
    [f0Mean |-> [num |-> 1200, den |-> 2], sumSq |-> 1512,
     spectralCentroid |-> 600, samples |-> 378, sampleRate |-> 1200]

BoundedSeq(S, n) == UNION {[1..k -> S] : k \in 0..n}

\* the DetectionResults generateDiagnosis is applied to
Results ==
    [timestamp : {0, 1}, features : {NoFeatures, CryFeatures},
     alerts : BoundedSeq(AlertCatalog, MaxAlerts), riskLevel : RiskLevels]

NormalConfidence == 80

NormalDiagnosis_Monitor ==
    [primary |-> "Normal Cry",
     description |-> "Cry patterns appear within normal ranges.",
     recommendations |-> <<"Continue regular monitoring",
                           "Maintain feeding and sleep schedules">>,
     medicalAttention |-> "monitor",
     confidence |-> NormalConfidence,
     tags |-> <<"normal", "healthy">>]

NormalDiagnosis ==
    [primary |-> "Normal Cry",
     description |-> "Cry patterns appear within normal ranges.",
     recommendations |-> <<"Continue regular monitoring",
                           "Maintain feeding and sleep schedules">>,
     medicalAttention |-> "none",
     confidence |-> NormalConfidence,
     tags |-> <<"normal", "healthy">>]

CriticalDiagnosis_Urgent(primaryAlert) ==
    [primary |-> primaryAlert.message,
     description |-> primaryAlert.description,
     recommendations |-> <<primaryAlert.recommendation,
                           "Seek immediate medical evaluation">>,
     medicalAttention |-> "urgent",
     confidence |-> primaryAlert.confidence,
     tags |-> <<"critical", primaryAlert.type, "urgent">>]

CriticalDiagnosis(primaryAlert) ==
    [primary |-> primaryAlert.message,
     description |-> primaryAlert.description,
     recommendations |-> <<primaryAlert.recommendation,
                           "Seek immediate medical evaluation">>,
     medicalAttention |-> "emergency",
     confidence |-> primaryAlert.confidence,
     tags |-> <<"critical", primaryAlert.type, "urgent">>]

HighDiagnosis(primaryAlert) ==
    [primary |-> primaryAlert.message,
     description |-> primaryAlert.description,
     recommendations |-> <<primaryAlert.recommendation,
                           "Consider consulting pediatrician">>,
     medicalAttention |-> "consult",
     confidence |-> primaryAlert.confidence,
     tags |-> <<"high-priority", primaryAlert.type>>]

MonitorDiagnosis_BoilerplateFirst(primaryAlert) ==
    [primary |-> primaryAlert.message,
     description |-> primaryAlert.description,
     recommendations |-> <<"Monitor for patterns", primaryAlert.recommendation>>,
     medicalAttention |-> "monitor",
     confidence |-> primaryAlert.confidence,
     tags |-> <<primaryAlert.severity, primaryAlert.type>>]

MonitorDiagnosis(primaryAlert) ==
    [primary |-> primaryAlert.message,
     description |-> primaryAlert.description,
     recommendations |-> <<primaryAlert.recommendation, "Monitor for patterns">>,
     medicalAttention |-> "monitor",
     confidence |-> primaryAlert.confidence,
     tags |-> <<primaryAlert.severity, primaryAlert.type>>]

\* alerts.filter(a => a.severity === severity)
FilterSeverity(alerts, severity) ==
    SelectSeq(alerts, LAMBDA a : a.severity = severity)

generateDiagnosis_HighFirst(detectionResult) ==
    LET alerts == detectionResult.alerts
        criticalAlerts == FilterSeverity(alerts, "critical")
        highAlerts == FilterSeverity(alerts, "high")
    IN IF Len(alerts) = 0 THEN NormalDiagnosis
       ELSE IF Len(highAlerts) > 0 THEN HighDiagnosis(highAlerts[1])
       ELSE IF Len(criticalAlerts) > 0 THEN CriticalDiagnosis(criticalAlerts[1])
       ELSE MonitorDiagnosis(alerts[1])

generateDiagnosis_ByRiskLevel(detectionResult) ==
    LET alerts == detectionResult.alerts
        criticalAlerts == FilterSeverity(alerts, "critical")
        highAlerts == FilterSeverity(alerts, "high")
    IN IF Len(alerts) = 0 \/ detectionResult.riskLevel = "low"
       THEN NormalDiagnosis
       ELSE IF Len(criticalAlerts) > 0 THEN CriticalDiagnosis(criticalAlerts[1])
       ELSE IF Len(highAlerts) > 0 THEN HighDiagnosis(highAlerts[1])
       ELSE MonitorDiagnosis(alerts[1])

generateDiagnosis(detectionResult) ==
    LET alerts == detectionResult.alerts
        criticalAlerts == FilterSeverity(alerts, "critical")
        highAlerts == FilterSeverity(alerts, "high")
    IN IF Len(alerts) = 0 THEN NormalDiagnosis
       ELSE IF Len(criticalAlerts) > 0 THEN CriticalDiagnosis(criticalAlerts[1])
       ELSE IF Len(highAlerts) > 0 THEN HighDiagnosis(highAlerts[1])
       ELSE MonitorDiagnosis(alerts[1])

NoResult ==
    [timestamp |-> 0, features |-> NoFeatures, alerts |-> <<>>,
     riskLevel |-> "low"]

\* the value of diagnosis before generateDiagnosis has returned
NoDiagnosis ==
    [primary |-> "", description |-> "", recommendations |-> <<>>,
     medicalAttention |-> "", confidence |-> 0, tags |-> <<>>]

-----------------------------------------------------------------------------
(* CryStorage: values, JSON and base64 *)

\* JavaScript values that reach JSON.stringify: a Date holding an instant in
\* ms, a string, and the plain object dateReplacer builds.  The text of an
\* ISO date string is modelled by the instant it spells, [iso |-> ms]:
\* toISOString writes millisecond precision and new Date(text) reads it back.
DateValue(ms) == [type |-> "Date", ms |-> ms]

StringValue(text) == [type |-> "string", text |-> text]

\* { __type: typeName, value: value }
ObjectValue(typeName, value) ==
    [type |-> "object", typeName |-> typeName, value |-> value]

toISOString(date) == [iso |-> date.ms]

\* Date.prototype.toJSON, which JSON.stringify applies to a property value
\* before it hands the value to the replacer
toJSON(value) ==
    IF value.type = "Date" THEN StringValue(toISOString(value)) ELSE value

\* CryStorage.dateReplacer
dateReplacer(value) ==
    IF value.type = "Date"
    THEN ObjectValue("Date", StringValue(toISOString(value)))
    ELSE value

\* CryStorage.dateReviver
dateReviver(value) ==
    IF value.type = "object" /\ value.typeName = "Date"
    THEN DateValue(value.value.text.iso)
    ELSE value

\* JSON.stringify(value, dateReplacer) of one property value: toJSON first,
\* then the replacer, then the text of what the replacer returned.  Strings
\* and plain objects are written and read back by JSON without loss, so the
\* text is modelled by the value it denotes.
SerializeJSONProperty(value) == dateReplacer(toJSON(value))

\* JSON.parse(text, dateReviver) of one property value
InternalizeJSONProperty(json) == dateReviver(json)

\* a CryInstance as the store sees it: the id and the timestamp; the other
\* fields are numbers, strings and lists that JSON carries unchanged
CryInstance(id, timestamp) == [id |-> id, timestamp |-> timestamp]

\* JSON.stringify(limited, this.dateReplacer)
stringifyCries(cries) ==
    [form |-> "array",
     items |-> [i \in 1..Len(cries) |->
                  CryInstance(cries[i].id,
                              SerializeJSONProperty(cries[i].timestamp))]]

\* JSON.parse(stored, this.dateReviver) of a text that parses
parseCries(item) ==
    [i \in 1..Len(item.items) |->
        CryInstance(item.items[i].id,
                    InternalizeJSONProperty(item.items[i].timestamp))]

\* what localStorage.getItem returns for a key that is not there
Absent == [form |-> "absent"]

\* a stored text that JSON.parse rejects
Garbage == [form |-> "garbage"]

\* base64 text: a sequence of sextets 0..63 and of the pad character
Pad == 64

RECURSIVE Base64Encode(_)
\* the base64 part of the data URL FileReader.readAsDataURL produces
Base64Encode(bytes) ==
    IF Len(bytes) = 0 THEN <<>>
    ELSE IF Len(bytes) = 1
    THEN <<bytes[1] \div 4, (bytes[1] % 4) * 16, Pad, Pad>>
    ELSE IF Len(bytes) = 2
    THEN <<bytes[1] \div 4, (bytes[1] % 4) * 16 + bytes[2] \div 16,
           (bytes[2] % 16) * 4, Pad>>
    ELSE <<bytes[1] \div 4, (bytes[1] % 4) * 16 + bytes[2] \div 16,
           (bytes[2] % 16) * 4 + bytes[3] \div 64, bytes[3] % 64>>
         \o Base64Encode(SubSeq(bytes, 4, Len(bytes)))

\* atob strips one or two trailing pads of a text whose length is a multiple
\* of four
StripPadding(data) ==
    IF Len(data) > 0 /\ Len(data) % 4 = 0 /\ data[Len(data)] = Pad
    THEN IF data[Len(data) - 1] = Pad
         THEN SubSeq(data, 1, Len(data) - 2)
         ELSE SubSeq(data, 1, Len(data) - 1)
    ELSE data

RECURSIVE DecodeSextets(_)
DecodeSextets(sextets) ==
    IF Len(sextets) < 2 THEN <<>>
    ELSE IF Len(sextets) = 2
    THEN <<sextets[1] * 4 + sextets[2] \div 16>>
    ELSE IF Len(sextets) = 3
    THEN <<sextets[1] * 4 + sextets[2] \div 16,
           (sextets[2] % 16) * 16 + sextets[3] \div 4>>
    ELSE <<sextets[1] * 4 + sextets[2] \div 16,
           (sextets[2] % 16) * 16 + sextets[3] \div 4,
           (sextets[3] % 4) * 64 + sextets[4]>>
         \o DecodeSextets(SubSeq(sextets, 5, Len(sextets)))

\* atob(data): the byte of each character of the decoded string, or a throw
\* (InvalidCharacterError) for a text that is not base64
atob(data) ==
    LET sextets == StripPadding(data)
    IN IF \/ Len(sextets) % 4 = 1
          \/ \E i \in 1..Len(sextets) : sextets[i] \notin 0..63
       THEN [threw |-> TRUE, bytes |-> <<>>]
       ELSE [threw |-> FALSE, bytes |-> DecodeSextets(sextets)]

Blob(bytes, type) == [bytes |-> bytes, type |-> type]

\* the text stored in the audio slot: JSON.stringify({data, type, size})
AudioItem(data, type, size) ==
    [form |-> "audio", data |-> data, type |-> type, size |-> size]

-----------------------------------------------------------------------------
(* CryStorage: the operations on localStorage *)

HistoryLimit == 1000  \* stored.slice(-1000)

\* the browsing contexts (tabs) of the application: each runs its handlers to
\* completion one at a time, and all of them share the origin's localStorage
Producers == {1, 2}

\* the instants, in ms, of the timestamps handed in
Instants == {0, 1}

\* the ids that address audio slots; 0 is a slot persisted by an earlier run
AudioIds == 0..MaxCries

\* the recordings handed to saveCryWithAudio, each with its instant
Recordings ==
    { [ms |-> 0, audioBlob |-> Blob(<<255>>, "audio/webm")],
      [ms |-> 1, audioBlob |-> Blob(<<1, 254, 7, 64>>, "audio/wav")] }

NoBlob == Blob(<<>>, "")

\* list.slice(-n)
slice_First(list, n) ==
    IF Len(list) > n THEN SubSeq(list, 1, n) ELSE list

slice(list, n) ==
    IF Len(list) > n THEN SubSeq(list, Len(list) - n + 1, Len(list)) ELSE list

getAllCries_KeepsUnparsed(storage) ==
    LET stored == storage.history
    IN IF stored.form \in {"absent", "empty"} THEN <<>>
       ELSE IF stored.form = "array" THEN parseCries(stored)
       ELSE <<CryInstance(0, StringValue([iso |-> 0]))>>

\* CryStorage.getAllCries: [] for a missing or empty text (!stored) and for
\* a text JSON.parse throws on
getAllCries(storage) ==
    LET stored == storage.history
    IN IF stored.form \in {"absent", "empty"} THEN <<>>
       ELSE IF stored.form = "array" THEN parseCries(stored)
       ELSE <<>>

\* what the promise of getAudioForCry settles to
Resolved(value) == [settled |-> "resolved", value |-> value]

Rejected == [settled |-> "rejected", value |-> [null |-> TRUE]]

Null == [null |-> TRUE]

getAudioForCry_NoCatch(storage, cryId) ==
    LET audioData == storage.audio[cryId]
    IN IF audioData.form \in {"absent", "empty"} THEN Resolved(Null)
       ELSE IF audioData.form # "audio" THEN Rejected
       ELSE LET byteCharacters == atob(audioData.data)
            IN IF byteCharacters.threw THEN Rejected
               ELSE Resolved(Blob(byteCharacters.bytes, audioData.type))

\* CryStorage.getAudioForCry
getAudioForCry(storage, cryId) ==
    LET audioData == storage.audio[cryId]
    IN IF audioData.form \in {"absent", "empty"} THEN Resolved(Null)
       ELSE IF audioData.form # "audio" THEN Resolved(Null)
       ELSE LET byteCharacters == atob(audioData.data)
            IN IF byteCharacters.threw THEN Resolved(Null)
               ELSE Resolved(Blob(byteCharacters.bytes, audioData.type))

setAudioItem_RollsBack(storage, cryId, item, quotaExceeded) ==
    IF quotaExceeded THEN [storage EXCEPT !.history = Absent]
    ELSE [storage EXCEPT !.audio[cryId] = item]

\* the try { localStorage.setItem(audioKey, ...) } catch of reader.onload
setAudioItem(storage, cryId, item, quotaExceeded) ==
    IF quotaExceeded THEN storage
    ELSE [storage EXCEPT !.audio[cryId] = item]

setHistoryItem_DropsEvictedAudio(storage, cries) ==
    [history |-> stringifyCries(cries),
     audio |-> [id \in DOMAIN storage.audio |->
                   IF \E i \in 1..Len(cries) : cries[i].id = id
                   THEN storage.audio[id] ELSE Absent]]

\* localStorage.setItem(this.STORAGE_KEY, JSON.stringify(limited, ...))
setHistoryItem(storage, cries) ==
    [storage EXCEPT !.history = stringifyCries(cries)]

NoValue == [none |-> TRUE]

Step(op, id, outcome, quotaExceeded, readForm, value) ==
    [op |-> op, id |-> id, outcome |-> outcome,
     quotaExceeded |-> quotaExceeded, readForm |-> readForm, value |-> value]

NoStep == Step("none", 0, "none", FALSE, "none", NoValue)

NoSave == [op |-> "none", cry |-> CryInstance(0, DateValue(0)),
           audioBlob |-> NoBlob, readForm |-> "none"]

\* saveCry up to its write: getAllCries, push, slice.  saveCryWithAudio
\* starts with the same call.
SaveCryBegin(p, op, cry, audioBlob) ==
    /\ pc[p] = "idle"
    /\ LET stored == getAllCries(localStorage)
           pushed == Append(stored, cry)
       IN limited' = [limited EXCEPT ![p] = slice(pushed, HistoryLimit)]
    /\ pc' = [pc EXCEPT ![p] = "saving"]
    /\ call' = [call EXCEPT ![p] = [op |-> op, cry |-> cry,
                                      audioBlob |-> audioBlob,
                                      readForm |-> localStorage.history.form]]
    /\ nextId' = nextId + 1
    /\ issued' = issued \cup {cry}
    /\ cleared' = [cleared EXCEPT !.active = FALSE]
    /\ stLast' = Step(op, cry.id, "reading", FALSE,
                      localStorage.history.form, NoValue)
    /\ UNCHANGED <<localStorage, readers, appended, audioWritten>>
    /\ UNCHANGED <<detectorVars, diagVars, extraVars>>

\* the localStorage.setItem of saveCry, which throws when the quota is
\* exceeded, and the return of the call; saveCryWithAudio then creates the
\* FileReader and starts readAsDataURL
SetHistory(p, quotaExceeded) ==
    /\ pc[p] = "saving"
    /\ pc' = [pc EXCEPT ![p] = "idle"]
    /\ limited' = [limited EXCEPT ![p] = <<>>]
    /\ call' = [call EXCEPT ![p] = NoSave]
    /\ IF quotaExceeded
       THEN /\ stLast' = Step(call[p].op, call[p].cry.id, "threw", TRUE,
                              call[p].readForm, NoValue)
            /\ UNCHANGED <<localStorage, readers, appended>>
       ELSE /\ localStorage' = setHistoryItem(localStorage, limited[p])
            /\ appended' = Append(appended, call[p].cry.id)
            /\ readers' =
                   IF call[p].op = "saveCryWithAudio"
                   THEN readers \cup {[producer |-> p, id |-> call[p].cry.id,
                                        audioBlob |-> call[p].audioBlob]}
                   ELSE readers
            /\ stLast' = Step(call[p].op, call[p].cry.id, "returned", FALSE,
                              call[p].readForm, NoValue)
    /\ UNCHANGED <<nextId, issued, cleared, audioWritten>>
    /\ UNCHANGED <<detectorVars, diagVars, extraVars>>

\* reader.onload of saveCryWithAudio: the base64 part of the data URL goes
\* to the audio slot of the id; a quota failure is caught and warned about
ReaderOnload(r, quotaExceeded) ==
    /\ r \in readers
    /\ pc[r.producer] = "idle"
    /\ LET base64Audio == Base64Encode(r.audioBlob.bytes)
           item == AudioItem(base64Audio, r.audioBlob.type,
                             Len(r.audioBlob.bytes))
       IN localStorage' = setAudioItem(localStorage, r.id, item, quotaExceeded)
    /\ readers' = readers \ {r}
    /\ audioWritten' =
           IF quotaExceeded THEN audioWritten
           ELSE audioWritten \cup {[id |-> r.id, audioBlob |-> r.audioBlob]}
    /\ stLast' = Step("onload", r.id,
                      IF quotaExceeded THEN "warned" ELSE "stored",
                      quotaExceeded, "none", NoValue)
    /\ UNCHANGED <<pc, limited, call, nextId, appended, issued, cleared>>
    /\ UNCHANGED <<detectorVars, diagVars, extraVars>>

\* CryStorage.clearAllCries: the log key and every key with the audio prefix
clearAllCries(p) ==
    /\ pc[p] = "idle"
    /\ localStorage' = [history |-> Absent,
                        audio |-> [id \in DOMAIN localStorage.audio |-> Absent]]
    /\ audioWritten' = {}
    /\ cleared' = [active |-> \A q \in Producers : pc[q] = "idle",
                   ids |-> {cry.id : cry \in issued},
                   ever |-> TRUE]
    /\ stLast' = Step("clearAllCries", 0, "returned", FALSE, "none", NoValue)
    /\ UNCHANGED <<pc, limited, call, readers, nextId, appended, issued>>
    /\ UNCHANGED <<detectorVars, diagVars, extraVars>>

\* a call of getAllCries by a collaborator, from any browsing context
GetAllCries ==
    /\ stLast' = Step("getAllCries", 0, "returned", FALSE,
                      localStorage.history.form,
                      [cries |-> getAllCries(localStorage)])
    /\ UNCHANGED <<localStorage, pc, limited, call, readers, nextId,
                   appended, issued, cleared, audioWritten>>
    /\ UNCHANGED <<detectorVars, diagVars, extraVars>>

\* a call of getAudioForCry by a collaborator, up to the settled promise,
\* for an id that exists
GetAudioForCry(cryId) ==
    /\ cryId < nextId
    /\ LET promise == getAudioForCry(localStorage, cryId)
       IN stLast' = Step("getAudioForCry", cryId, promise.settled, FALSE,
                         localStorage.audio[cryId].form, promise.value)
    /\ UNCHANGED <<localStorage, pc, limited, call, readers, nextId,
                   appended, issued, cleared, audioWritten>>
    /\ UNCHANGED <<detectorVars, diagVars, extraVars>>

-----------------------------------------------------------------------------
(* ContinuousMonitor: the recording cycle and processAudioChunk *)

\* audioBuffer.duration >= 0.5, in tenths of a second
MinChunkTenths == 5

\* a recorded blob with what decodeAudioData and analyzeAudio make of it
Chunk(audioBlob, decodes, duration, analyzeThrows, detectionResult) ==
    [audioBlob |-> audioBlob, decodes |-> decodes, duration |-> duration,
     analyzeThrows |-> analyzeThrows, result |-> detectionResult]

WebmBlob == Blob(<<255>>, "audio/webm")

\* the DetectionResults analyzeAudio hands back
MonitorResults ==
    [timestamp : {0}, features : {CryFeatures},
     alerts : { <<>>,
                <<Alert("hypernasality", "low", 55, "Hypernasality",
                        "High nasal energy ratio", "Observe")>>,
                <<Alert("weak_cry", "medium", 75, "Weak cry",
                        "Low cry amplitude", "Check feeding"),
                  Alert("serious_illness", "critical", 70,
                        "Serious illness pattern", "Abnormal cry acoustics",
                        "Emergency care")>> },
     riskLevel : RiskLevels]

\* what a recording may turn out to be: undecodable, shorter than half a
\* second, or long enough, and then analysed or failing in analyzeAudio
Chunks ==
    {Chunk(WebmBlob, FALSE, 0, FALSE, NoResult)}
      \cup { Chunk(WebmBlob, TRUE, duration, FALSE, r) :
                duration \in {MinChunkTenths - 1, MinChunkTenths, 30},
                r \in MonitorResults }
      \cup {Chunk(WebmBlob, TRUE, 30, TRUE, NoResult)}

NoRecorder == [state |-> "none", isMonitoring |-> FALSE, events |-> <<>>]

NoInstance ==
    [id |-> 0, timestamp |-> DateValue(0), duration |-> 0,
     features |-> NoFeatures, alerts |-> <<>>, diagnosis |-> NoDiagnosis,
     riskLevel |-> "low", confidence |-> 0]

NoChunk == Chunk(NoBlob, FALSE, 0, FALSE, NoResult)

NotProcessed ==
    [outcome |-> "none", chunk |-> NoChunk, saveCalled |-> FALSE,
     cryInstance |-> NoInstance, quotaExceeded |-> FALSE]

\* no monitoring has been started
MonitorFresh ==
    /\ isMonitoring = FALSE
    /\ mediaRecorder = NoRecorder
    /\ recordingChunks = <<>>
    /\ analysisInterval = FALSE
    /\ onstop = "idle"
    /\ processed = NotProcessed

IsSignificant_Both(detectionResult) ==
    detectionResult.riskLevel # "low" /\ Len(detectionResult.alerts) > 0

\* result.riskLevel !== 'low' || result.alerts.length > 0
IsSignificant(detectionResult) ==
    detectionResult.riskLevel # "low" \/ Len(detectionResult.alerts) > 0

\* the cryInstance processAudioChunk builds
MonitorCryInstance(id, dateNow, chunk) ==
    LET monitorDiagnosis == generateDiagnosis(chunk.result)
    IN [id |-> id, timestamp |-> DateValue(dateNow),
        duration |-> chunk.duration,
        features |-> chunk.result.features,
        alerts |-> chunk.result.alerts,
        diagnosis |-> monitorDiagnosis,
        riskLevel |-> chunk.result.riskLevel,
        confidence |-> monitorDiagnosis.confidence]

\* how far processAudioChunk gets with a chunk before anything is stored
ChunkOutcome(chunk) ==
    IF ~chunk.decodes THEN "error"
    ELSE IF chunk.duration < MinChunkTenths THEN "skipped"
    ELSE IF chunk.analyzeThrows THEN "error"
    ELSE IF IsSignificant(chunk.result) THEN "significant"
    ELSE "analyzed"

\* CryStorage.saveCryWithAudio(cryInstance, audioBlob) as one call of the
\* monitor's page: saveCry, then the FileReader is started.  A quota failure
\* of the log write leaves saveCryWithAudio as an exception.
saveCryWithAudio(cryInstance, audioBlob, quotaExceeded) ==
    LET cry == CryInstance(cryInstance.id, cryInstance.timestamp)
        stored == getAllCries(localStorage)
        pushed == Append(stored, cry)
    IN /\ nextId' = nextId + 1
       /\ issued' = issued \cup {cry}
       /\ cleared' = [cleared EXCEPT !.active = FALSE]
       /\ IF quotaExceeded
          THEN /\ stLast' = Step("saveCryWithAudio", cry.id, "threw", TRUE,
                                 localStorage.history.form, NoValue)
               /\ UNCHANGED <<localStorage, readers, appended>>
          ELSE /\ localStorage' =
                     setHistoryItem(localStorage, slice(pushed, HistoryLimit))
               /\ appended' = Append(appended, cry.id)
               /\ readers' = readers \cup {[producer |-> 1, id |-> cry.id,
                                             audioBlob |-> audioBlob]}
               /\ stLast' = Step("saveCryWithAudio", cry.id, "returned",
                                 FALSE, localStorage.history.form, NoValue)
       /\ UNCHANGED <<pc, limited, call, audioWritten>>

\* startMonitoring, from the Start button, which is rendered while
\* isMonitoring is false, once the handlers of an earlier recorder have run
\* and with the microphone granted (a rejected getUserMedia is caught and
\* changes nothing).  The onstop handler created here closes over the
\* isMonitoring of the render the button was clicked in.
StartMonitoring ==
    /\ ~isMonitoring
    /\ mediaRecorder.events = <<>>
    /\ onstop = "idle"
    /\ nextId <= MaxCries
    /\ mediaRecorder' = [state |-> "recording", isMonitoring |-> isMonitoring,
                         events |-> <<>>]
    /\ recordingChunks' = <<>>
    /\ isMonitoring' = TRUE
    /\ analysisInterval' = TRUE
    /\ UNCHANGED <<onstop, processed>>
    /\ UNCHANGED <<detectorVars, diagVars, storeVars, estimate, analyticsVars>>

\* MediaRecorder.stop(): a recording recorder becomes inactive and queues
\* dataavailable and stop; an inactive one is left as it is
RecorderStop(recorder) ==
    IF recorder.state = "recording"
    THEN [recorder EXCEPT !.state = "inactive",
                          !.events = <<"dataavailable", "stop">>]
    ELSE recorder

\* the callback of setInterval(..., 3000)
AnalysisTick ==
    /\ analysisInterval
    /\ mediaRecorder' = IF mediaRecorder.state = "recording"
                        THEN RecorderStop(mediaRecorder)
                        ELSE mediaRecorder
    /\ UNCHANGED <<isMonitoring, recordingChunks, analysisInterval, onstop,
                   processed>>
    /\ UNCHANGED <<detectorVars, diagVars, storeVars, estimate, analyticsVars>>

\* ondataavailable, with the data recorded since start()
OnDataAvailable(chunk) ==
    /\ mediaRecorder.events # <<>>
    /\ Head(mediaRecorder.events) = "dataavailable"
    /\ recordingChunks' = Append(recordingChunks, chunk)
    /\ mediaRecorder' = [mediaRecorder EXCEPT !.events = Tail(@)]
    /\ UNCHANGED <<isMonitoring, analysisInterval, onstop, processed>>
    /\ UNCHANGED <<detectorVars, diagVars, storeVars, estimate, analyticsVars>>

\* onstop up to its await
OnStop ==
    /\ mediaRecorder.events # <<>>
    /\ Head(mediaRecorder.events) = "stop"
    /\ onstop = "idle"
    /\ mediaRecorder' = [mediaRecorder EXCEPT !.events = Tail(@)]
    /\ onstop' = IF Len(recordingChunks) > 0 THEN "processing" ELSE "idle"
    /\ UNCHANGED <<isMonitoring, recordingChunks, analysisInterval,
                   processed>>
    /\ UNCHANGED <<detectorVars, diagVars, storeVars, estimate, analyticsVars>>

\* processAudioChunk(audioBlob), every failure inside it caught and logged,
\* and then the rest of onstop: the chunks are dropped and the recorder is
\* started again if the handler's isMonitoring says so
ProcessAudioChunk(dateNow, quotaExceeded) ==
    LET chunk == recordingChunks[1]
        outcome == ChunkOutcome(chunk)
        cryInstance == MonitorCryInstance(nextId, dateNow, chunk)
    IN /\ onstop = "processing"
       /\ IF outcome = "significant"
          THEN /\ nextId <= MaxCries
               /\ saveCryWithAudio(cryInstance, chunk.audioBlob, quotaExceeded)
               /\ processed' = [outcome |-> IF quotaExceeded THEN "error"
                                                             ELSE "significant",
                                chunk |-> chunk, saveCalled |-> TRUE,
                                cryInstance |-> cryInstance,
                                quotaExceeded |-> quotaExceeded]
          ELSE /\ ~quotaExceeded
               /\ dateNow = 0
               /\ processed' = [outcome |-> outcome, chunk |-> chunk,
                                saveCalled |-> FALSE,
                                cryInstance |-> NoInstance,
                                quotaExceeded |-> FALSE]
               /\ UNCHANGED storeVars
       /\ recordingChunks' = <<>>
       /\ mediaRecorder' =
              IF mediaRecorder.isMonitoring /\ mediaRecorder.state # "none"
              THEN [mediaRecorder EXCEPT !.state = "recording"]
              ELSE mediaRecorder
       /\ onstop' = "idle"
       /\ UNCHANGED <<isMonitoring, analysisInterval>>
       /\ UNCHANGED <<detectorVars, diagVars, estimate, analyticsVars>>

\* stopMonitoring, from the Stop button, rendered while isMonitoring is true
StopMonitoring ==
    /\ isMonitoring
    /\ mediaRecorder' = IF mediaRecorder.state # "none"
                        THEN RecorderStop(mediaRecorder)
                        ELSE mediaRecorder
    /\ analysisInterval' = FALSE
    /\ isMonitoring' = FALSE
    /\ UNCHANGED <<recordingChunks, onstop, processed>>
    /\ UNCHANGED <<detectorVars, diagVars, storeVars, estimate, analyticsVars>>

-----------------------------------------------------------------------------
(* CryAnalytics: the loading effect and the Recent Cries list *)

\* 1000 * 60 * 60
HourMs == 3600000

\* cries.slice(0, 10)
RecentLimit == 10

Timeframes == {"1h", "6h", "24h", "all"}

\* the hours a timeframe reaches back; 'all' has no limit
TimeframeHours(timeframe) ==
    IF timeframe = "1h" THEN 1 ELSE IF timeframe = "6h" THEN 6 ELSE 24

\* the callback of allCries.filter: cry.timestamp.getTime() is evaluated
\* whatever the timeframe
InTimeframe(cry, dateNow, timeframe) ==
    timeframe = "all"
        \/ dateNow - cry.timestamp.ms <= TimeframeHours(timeframe) * HourMs

\* allCries.filter(...): a TypeError when a timestamp is not a Date, for it
\* has no getTime; otherwise the matching cries in the order of allCries
filterByTimeframe(allCries, dateNow, timeframe) ==
    IF \E i \in 1..Len(allCries) : allCries[i].timestamp.type # "Date"
    THEN [threw |-> TRUE, filtered |-> <<>>]
    ELSE [threw |-> FALSE,
          filtered |-> SelectSeq(allCries,
                                 LAMBDA cry : InTimeframe(cry, dateNow, timeframe))]

sliceTo_Last(list, end) ==
    IF Len(list) > end THEN SubSeq(list, Len(list) - end + 1, Len(list))
    ELSE list

\* list.slice(0, end)
sliceTo(list, end) ==
    IF Len(list) > end THEN SubSeq(list, 1, end) ELSE list

\* the entries rendered under Recent Cries: none when the effect threw or
\* analytics is null, the card not being rendered then
RecentCries ==
    IF effect.outcome = "threw" \/ ~analytics.present THEN <<>>
    ELSE sliceTo(analyticsCries, RecentLimit)

NoAnalytics == [present |-> FALSE, totalCries |-> 0]

NoEffect == [outcome |-> "none", dateNow |-> 0]

\* CryAnalytics before it is mounted
AnalyticsFresh ==
    /\ selectedTimeframe = "24h"
    /\ analyticsCries = <<>>
    /\ analytics = NoAnalytics
    /\ effect = NoEffect

\* loadCriesData for a timeframe, at the instant dateNow
loadCriesData(timeframe, dateNow) ==
    LET allCries == getAllCries(localStorage)
        loaded == filterByTimeframe(allCries, dateNow, timeframe)
    IN IF loaded.threw
       THEN /\ effect' = [outcome |-> "threw", dateNow |-> dateNow]
            /\ UNCHANGED <<analyticsCries, analytics>>
       ELSE /\ effect' = [outcome |-> "loaded", dateNow |-> dateNow]
            /\ analyticsCries' = loaded.filtered
            /\ analytics' =
                   IF Len(loaded.filtered) > 0
                   THEN [present |-> TRUE, totalCries |-> Len(loaded.filtered)]
                   ELSE NoAnalytics

\* the effect on mount, with the initial timeframe
Mount(dateNow) ==
    /\ effect.outcome = "none"
    /\ loadCriesData(selectedTimeframe, dateNow)
    /\ UNCHANGED selectedTimeframe
    /\ UNCHANGED <<detectorVars, diagVars, storeVars, estimate, monitorVars>>

\* a timeframe button: setSelectedTimeframe, then the effect runs again
SelectTimeframe(timeframe, dateNow) ==
    /\ effect.outcome = "loaded"
    /\ timeframe # selectedTimeframe
    /\ dateNow >= effect.dateNow
    /\ selectedTimeframe' = timeframe
    /\ loadCriesData(timeframe, dateNow)
    /\ UNCHANGED <<detectorVars, diagVars, storeVars, estimate, monitorVars>>

\* clearAllData, confirmed by the user
clearAllData ==
    /\ effect.outcome = "loaded"
    /\ analytics.present
    /\ localStorage' = [history |-> Absent,
                        audio |-> [id \in DOMAIN localStorage.audio |-> Absent]]
    /\ audioWritten' = {}
    /\ cleared' = [active |-> TRUE, ids |-> {cry.id : cry \in issued},
                   ever |-> TRUE]
    /\ stLast' = Step("clearAllCries", 0, "returned", FALSE, "none", NoValue)
    /\ analyticsCries' = <<>>
    /\ analytics' = NoAnalytics
    /\ UNCHANGED <<selectedTimeframe, effect>>
    /\ UNCHANGED <<pc, limited, call, readers, nextId, appended, issued>>
    /\ UNCHANGED <<detectorVars, diagVars, estimate, monitorVars>>

-----------------------------------------------------------------------------
(* Specifications *)

DetectorInit ==
    /\ isDetectingCry = FALSE
    /\ detectionStartTime = NoTime
    /\ analysisBuffer = <<>>
    /\ now = 0
    /\ callbackCount = 0
    /\ last = NoCall
    /\ run = "fresh"

\* no localStorage traffic yet, over a store persisted by earlier runs
StoreFresh(history, audio0) ==
    /\ localStorage = [history |-> history,
                       audio |-> [id \in AudioIds |->
                                     IF id = 0 THEN audio0 ELSE Absent]]
    /\ pc = [p \in Producers |-> "idle"]
    /\ limited = [p \in Producers |-> <<>>]
    /\ call = [p \in Producers |-> NoSave]
    /\ readers = {}
    /\ nextId = 1
    /\ stLast = NoStep
    /\ appended = <<>>
    /\ issued = {}
    /\ cleared = [active |-> FALSE, ids |-> {}, ever |-> FALSE]
    /\ audioWritten = {}

\* estimateF0 has not been handed anything
NoEstimate == [signal |-> <<>>, sampleRate |-> 0, called |-> FALSE,
               f0 |-> [num |-> 0, den |-> 1]]

\* none of the functions and components studied on their own has run
NoFunctionCalls ==
    /\ estimate = NoEstimate
    /\ MonitorFresh
    /\ AnalyticsFresh

\* a freshly constructed CryDetectionEngine
Init ==
    /\ DetectorInit
    /\ result = NoResult
    /\ diagnosis = NoDiagnosis
    /\ StoreFresh(Absent, Absent)
    /\ NoFunctionCalls

ProcessSample ==
    \E audioData \in Blocks, sampleRate \in SampleRates :
        processSample(audioData, sampleRate, {0, TickMs})

Next == ProcessSample

Spec == Init /\ [][Next]_vars

\* generateDiagnosis applied to a DetectionResult
DiagInit ==
    /\ DetectorInit
    /\ result \in Results
    /\ diagnosis = NoDiagnosis
    /\ StoreFresh(Absent, Absent)
    /\ NoFunctionCalls

GenerateDiagnosis ==
    /\ diagnosis = NoDiagnosis
    /\ diagnosis' = generateDiagnosis(result)
    /\ UNCHANGED <<result, detectorVars, storeVars, extraVars>>

DiagNext == GenerateDiagnosis

DiagSpec == DiagInit /\ [][DiagNext]_vars

\* a log written in the envelope format by an earlier run
OldLog ==
    [form |-> "array",
     items |-> <<CryInstance(0, ObjectValue("Date", StringValue([iso |-> 1])))>>]

\* a text whose data is not base64
BadAudio == AudioItem(<<5>>, "audio/webm", 1)

\* what the log key and the audio slot of id 0 may hold when the application
\* starts: nothing, texts that do not parse, a log with an undecodable slot
Persisted ==
    { [history |-> Absent, audio0 |-> Absent],
      [history |-> Garbage, audio0 |-> Garbage],
      [history |-> OldLog, audio0 |-> BadAudio] }

\* CryStorage used by the browsing contexts over one localStorage
StoreInit ==
    /\ DetectorInit
    /\ result = NoResult
    /\ diagnosis = NoDiagnosis
    /\ \E persisted \in Persisted :
          StoreFresh(persisted.history, persisted.audio0)
    /\ NoFunctionCalls

SaveCry(p) ==
    \E ms \in Instants :
        /\ nextId <= MaxCries
        /\ SaveCryBegin(p, "saveCry", CryInstance(nextId, DateValue(ms)), NoBlob)

SaveCryWithAudio(p) ==
    \E recording \in Recordings :
        /\ nextId <= MaxCries
        /\ SaveCryBegin(p, "saveCryWithAudio",
                        CryInstance(nextId, DateValue(recording.ms)),
                        recording.audioBlob)

StoreNext ==
    \/ \E p \in Producers :
          \/ SaveCry(p)
          \/ SaveCryWithAudio(p)
          \/ \E quotaExceeded \in BOOLEAN : SetHistory(p, quotaExceeded)
          \/ clearAllCries(p)
    \/ GetAllCries
    \/ \E cryId \in AudioIds : GetAudioForCry(cryId)
    \/ \E p \in Producers, cryId \in AudioIds, recording \in Recordings,
          quotaExceeded \in BOOLEAN :
          ReaderOnload([producer |-> p, id |-> cryId,
                        audioBlob |-> recording.audioBlob], quotaExceeded)

StoreSpec == StoreInit /\ [][StoreNext]_vars

\* one browsing context appending to an empty store, every write succeeding
LogInit ==
    /\ DetectorInit
    /\ result = NoResult
    /\ diagnosis = NoDiagnosis
    /\ StoreFresh(Absent, Absent)
    /\ NoFunctionCalls

LogSaveCry ==
    /\ nextId <= MaxLogged
    /\ SaveCryBegin(1, "saveCry", CryInstance(nextId, DateValue(nextId % 2)),
                    NoBlob)

LogSetHistory == SetHistory(1, FALSE)

\* the recording whose audio is kept with the first instance of the log
FirstRecording ==
    [ms |-> 1, audioBlob |-> Blob(<<1, 254, 7, 64>>, "audio/wav")]

\* the first instance of the log may be saved with its audio
LogSaveCryWithAudio ==
    /\ nextId = 1
    /\ SaveCryBegin(1, "saveCryWithAudio",
                    CryInstance(nextId, DateValue(FirstRecording.ms)),
                    FirstRecording.audioBlob)

LogReaderOnload ==
    ReaderOnload([producer |-> 1, id |-> 1,
                  audioBlob |-> FirstRecording.audioBlob], FALSE)

LogGetAudioForCry == GetAudioForCry(1)

LogNext ==
    \/ LogSaveCry
    \/ LogSetHistory
    \/ LogSaveCryWithAudio
    \/ LogReaderOnload
    \/ LogGetAudioForCry

LogSpec == LogInit /\ [][LogNext]_vars

\* ContinuousMonitor on a page of its own over an empty store
MonitorInit ==
    /\ DetectorInit
    /\ result = NoResult
    /\ diagnosis = NoDiagnosis
    /\ StoreFresh(Absent, Absent)
    /\ estimate = NoEstimate
    /\ MonitorFresh
    /\ AnalyticsFresh

MonitorOnDataAvailable == \E chunk \in Chunks : OnDataAvailable(chunk)

MonitorProcessAudioChunk ==
    \E dateNow \in Instants, quotaExceeded \in BOOLEAN :
        ProcessAudioChunk(dateNow, quotaExceeded)

MonitorReaderOnload ==
    \E cryId \in AudioIds, quotaExceeded \in BOOLEAN :
        ReaderOnload([producer |-> 1, id |-> cryId, audioBlob |-> WebmBlob],
                     quotaExceeded)

MonitorNext ==
    \/ StartMonitoring
    \/ AnalysisTick
    \/ MonitorOnDataAvailable
    \/ OnStop
    \/ MonitorProcessAudioChunk
    \/ StopMonitoring
    \/ MonitorReaderOnload

MonitorSpec == MonitorInit /\ [][MonitorNext]_vars

\* the instances of a log of n cries, one recorded every hour
Recorded(n) == [i \in 1..n |-> CryInstance(i, DateValue(i * HourMs))]

\* the text of a log whose timestamps are in the envelope format
EnvelopeLog(list) ==
    [form |-> "array",
     items |-> [i \in 1..Len(list) |->
                  CryInstance(list[i].id,
                              dateReplacer(list[i].timestamp))]]

\* the instants the view is loaded at: with the newest cry, and 5 and 23
\* hours after it
LoadInstants == { (MaxStored + h) * HourMs : h \in {0, 5, 23} }

\* CryAnalytics over a log of up to MaxStored cries, written by saveCry or
\* kept from an earlier run in the envelope format
AnalyticsInit ==
    /\ DetectorInit
    /\ result = NoResult
    /\ diagnosis = NoDiagnosis
    /\ estimate = NoEstimate
    /\ MonitorFresh
    /\ AnalyticsFresh
    /\ \E n \in 0..MaxStored, envelope \in BOOLEAN :
          /\ localStorage =
                [history |-> IF n = 0 THEN Absent
                             ELSE IF envelope THEN EnvelopeLog(Recorded(n))
                             ELSE stringifyCries(Recorded(n)),
                 audio |-> [id \in AudioIds |-> Absent]]
          /\ appended = [i \in 1..n |-> i]
          /\ issued = Range(Recorded(n))
          /\ nextId = n + 1
    /\ pc = [p \in Producers |-> "idle"]
    /\ limited = [p \in Producers |-> <<>>]
    /\ call = [p \in Producers |-> NoSave]
    /\ readers = {}
    /\ stLast = NoStep
    /\ cleared = [active |-> FALSE, ids |-> {}, ever |-> FALSE]
    /\ audioWritten = {}

AnalyticsMount == \E dateNow \in LoadInstants : Mount(dateNow)

AnalyticsSelectTimeframe ==
    \E timeframe \in Timeframes, dateNow \in LoadInstants :
        SelectTimeframe(timeframe, dateNow)

AnalyticsNext ==
    \/ AnalyticsMount
    \/ AnalyticsSelectTimeframe
    \/ clearAllData

AnalyticsSpec == AnalyticsInit /\ [][AnalyticsNext]_vars

\* the browser's event loop runs every timer callback, queued event and
\* settled await; nothing obliges the user to press a button
MonitorLiveSpec ==
    /\ MonitorSpec
    /\ WF_vars(AnalysisTick)
    /\ WF_vars(MonitorOnDataAvailable)
    /\ WF_vars(OnStop)
    /\ WF_vars(MonitorProcessAudioChunk)
    /\ WF_vars(MonitorReaderOnload)

\* signals of samples of one magnitude and either sign
Tones == UNION { [1..n -> {-2, 2}] : n \in 0..MaxSignalLen }

\* digital silence
Silences == { [i \in 1..n |-> 0] : n \in 1..MaxSignalLen }

\* one pulse every 36 samples, three pulses long
PulseTrain == [i \in 1..80 |-> IF (i - 1) % 36 = 0 THEN 2 ELSE 0]

\* sample rates below, at and above the rate where the shortest lag is one
\* sample; the pulse train is taken at 44100 Hz
EstimateRates == {299, 600, 1199, 1200, 1300, 2400}

\* estimateF0 applied to a signal at a sample rate
EstimateInit ==
    /\ DetectorInit
    /\ result = NoResult
    /\ diagnosis = NoDiagnosis
    /\ StoreFresh(Absent, Absent)
    /\ MonitorFresh
    /\ AnalyticsFresh
    /\ \/ \E signal \in Tones \cup Silences, sampleRate \in EstimateRates :
             estimate = [NoEstimate EXCEPT !.signal = signal,
                                           !.sampleRate = sampleRate]
       \/ estimate = [NoEstimate EXCEPT !.signal = PulseTrain,
                                        !.sampleRate = 44100]

EstimateF0 ==
    /\ ~estimate.called
    /\ estimate' = [estimate EXCEPT
                       !.called = TRUE,
                       !.f0 = estimateF0(estimate.signal, estimate.sampleRate)]
    /\ UNCHANGED <<detectorVars, diagVars, storeVars, monitorVars, analyticsVars>>

EstimateNext == EstimateF0

EstimateSpec == EstimateInit /\ [][EstimateNext]_vars

-----------------------------------------------------------------------------
(* Properties of the detector, checked under Spec *)

\* the acceptance condition as the specification words it, over the measures
\* of a buffer: 300 <= F0 <= 1200, centroid > 500, duration >= 0.3 s
AcceptedBySpec(m) ==
    /\ 300 * m.f0Mean.den <= m.f0Mean.num
    /\ m.f0Mean.num <= 1200 * m.f0Mean.den
    /\ m.spectralCentroid > 500
    /\ 10 * m.samples >= 3 * m.sampleRate

\* C1: as long as only blocks at or below the cry threshold have been fed to a
\* fresh detector, the callback has never been invoked, the latest call
\* returned false and the detector is Idle with an empty buffer.
C1_QuietBlocksNeverConfirm ==
    run = "quiet" =>
        /\ callbackCount = 0
        /\ last.callbacks = 0
        /\ last.ret = "false"
        /\ Idle

C1_Witness ==
    run = "quiet" /\ last.path = "idle" /\ now = 2 * TickMs /\ Idle

\* C2: when a fresh detector has been fed only above-threshold blocks and the
\* latest one met the gate (0.5 s elapsed, more than 20 blocks) with at least
\* 0.5 s of audio buffered whose concatenation has F0 in [300,1200] and
\* centroid > 500, and nothing was confirmed before, then the callback has
\* been invoked exactly once and the detector is Idle after that call.
C2_OneConfirmationThenIdle ==
    ( /\ run = "loud"
      /\ last.path = "loud"
      /\ last.elapsed >= 500
      /\ last.blocks > 20
      /\ last.attempted
      /\ 2 * last.measured.samples >= last.measured.sampleRate
      /\ AcceptedBySpec(last.measured)
      /\ callbackCount - last.callbacks = 0 )
    => (callbackCount = 1 /\ Idle)

\* C3: a processSample call returns true if and only if the callback was
\* invoked during it, and the callback is invoked at most once per call.
C3_TrueIffCallback ==
    last.path # "none" =>
        /\ (last.ret = "true") <=> (last.callbacks >= 1)
        /\ last.callbacks <= 1

\* C4: when the callback throws during a confirmation, the failure is caught
\* (processSample does not end in an exception) and the detector is Idle with
\* an empty buffer after the call.
C4_CallbackFailureCaught ==
    last.callbackThrew => (last.ret # "exception" /\ Idle)

\* C5: the call that starts an accumulation never validates or confirms; an
\* above-threshold block while Accumulating is appended, and validation is
\* attempted, and a confirmation emitted, only with at least 0.5 s elapsed and
\* more than 20 blocks buffered.
C5_LoudGateRequired ==
    /\ last.path = "start" =>
           (~last.attempted /\ last.callbacks = 0 /\ last.ret = "false")
    /\ last.path = "loud" =>
           /\ (last.attempted \/ last.callbacks > 0) =>
                  (last.elapsed >= 500 /\ last.blocks > 20)
           /\ last.callbacks = 0 =>
                  (isDetectingCry /\ Len(analysisBuffer) = last.blocks)

C5_Witness ==
    /\ last.path = "loud" /\ last.blocks = 20 /\ last.elapsed = 500
    /\ ~last.attempted /\ Len(analysisBuffer) = 20

\* C6: a block at or below the threshold received while Accumulating leaves
\* the detector Idle with an empty buffer unless the callback failed, and a
\* confirmation is emitted on that call only with at least 0.3 s elapsed, more
\* than 10 blocks buffered and an accepting validation.
C6_QuietBlockResets ==
    last.path = "quiet" =>
        /\ ~last.callbackThrew => Idle
        /\ last.callbacks > 0 =>
               /\ last.elapsed >= 300
               /\ last.blocks > 10
               /\ last.attempted
               /\ AcceptedBySpec(last.measured)

C6_Witness ==
    /\ last.path = "quiet" /\ last.ret = "true" /\ last.callbacks = 1
    /\ last.elapsed = 300 /\ last.blocks <= 20 /\ Idle

\* C7: whenever validation is attempted the callback is invoked exactly when
\* the buffer's measures satisfy 300 <= F0 <= 1200, centroid > 500 and
\* duration >= 0.3 s, and the callback is never invoked otherwise: the
\* features it receives satisfy all three.
C7_ValidationPredicate ==
    /\ last.attempted => (last.callbacks = 1 <=> AcceptedBySpec(last.measured))
    /\ last.callbacks > 0 => (last.attempted /\ AcceptedBySpec(last.features))

C7_Witness ==
    /\ last.attempted /\ last.callbacks = 0
    /\ last.measured.f0Mean.num = 1200 /\ last.measured.f0Mean.den = 1
    /\ last.measured.spectralCentroid = 0
    /\ 10 * last.measured.samples >= 3 * last.measured.sampleRate

-----------------------------------------------------------------------------
(* Properties of generateDiagnosis, checked under DiagSpec *)

Diagnosed == diagnosis # NoDiagnosis

HasSeverity(alerts, severity) ==
    \E i \in 1..Len(alerts) : alerts[i].severity = severity

\* the severity bands of the specification: critical > high > (medium|low)
Band(alert) ==
    IF alert.severity = "critical" THEN 3
    ELSE IF alert.severity = "high" THEN 2 ELSE 1

\* the first alert, in list order, of the highest band present
FirstOfTopBand(alerts) ==
    LET top == CHOOSE b \in 1..3 :
                  /\ \E i \in 1..Len(alerts) : Band(alerts[i]) = b
                  /\ \A i \in 1..Len(alerts) : Band(alerts[i]) <= b
        first == CHOOSE i \in 1..Len(alerts) :
                    /\ Band(alerts[i]) = top
                    /\ \A j \in 1..(i - 1) : Band(alerts[j]) # top
    IN alerts[first]

\* C8: with an empty alerts list the diagnosis is "Normal Cry", attention
\* "none", confidence 0.8, tags normal and healthy, whatever the riskLevel and
\* features of the result.
C8_EmptyAlertsNormalCry ==
    (Diagnosed /\ result.alerts = <<>>) =>
        /\ diagnosis.primary = "Normal Cry"
        /\ diagnosis.medicalAttention = "none"
        /\ diagnosis.confidence = 80
        /\ diagnosis.tags = <<"normal", "healthy">>

C8_Witness ==
    /\ Diagnosed /\ result.alerts = <<>>
    /\ result.riskLevel = "critical" /\ result.features = CryFeatures

\* C9: with a non-empty alerts list the primary alert of the diagnosis is the
\* first alert, in list order, of the highest severity band present.
C9_PrimaryIsFirstOfTopBand ==
    (Diagnosed /\ result.alerts # <<>>) =>
        LET primaryAlert == FirstOfTopBand(result.alerts)
        IN /\ diagnosis.primary = primaryAlert.message
           /\ diagnosis.description = primaryAlert.description
           /\ diagnosis.recommendations[1] = primaryAlert.recommendation

C9_Witness ==
    /\ Diagnosed /\ Len(result.alerts) = 3
    /\ result.alerts[1].severity = "high"
    /\ result.alerts[2].severity = "critical"
    /\ result.alerts[3].severity = "critical"
    /\ result.alerts[3].type # result.alerts[2].type
    /\ diagnosis.primary = result.alerts[2].message

\* C10: medicalAttention is emergency iff a critical alert is present, consult
\* iff a high one but no critical one, monitor iff the list is non-empty with
\* medium and low alerts only, none iff it is empty; it is never urgent.
C10_MedicalAttentionByBand ==
    Diagnosed =>
        LET alerts == result.alerts
            attention == diagnosis.medicalAttention
        IN /\ attention = "emergency" <=> HasSeverity(alerts, "critical")
           /\ attention = "consult" <=>
                  (~HasSeverity(alerts, "critical") /\ HasSeverity(alerts, "high"))
           /\ attention = "monitor" <=>
                  /\ alerts # <<>>
                  /\ ~HasSeverity(alerts, "critical")
                  /\ ~HasSeverity(alerts, "high")
           /\ attention = "none" <=> alerts = <<>>
           /\ attention # "urgent"

C10_Witness ==
    /\ Diagnosed /\ Len(result.alerts) = 2
    /\ result.alerts[1].severity = "low" /\ result.alerts[2].severity = "high"
    /\ diagnosis.medicalAttention = "consult"

\* the second recommendation the specification attaches to each band
BandBoilerplate(band) ==
    IF band = 3 THEN "Seek immediate medical evaluation"
    ELSE IF band = 2 THEN "Consider consulting pediatrician"
    ELSE "Monitor for patterns"

\* C11: with a non-empty alerts list the diagnosis has exactly two
\* recommendations, the primary alert's own and then the boilerplate of its
\* band, and its confidence, primary text and description are the primary
\* alert's confidence, message and description.
C11_RecommendationsAndConfidence ==
    (Diagnosed /\ result.alerts # <<>>) =>
        LET primaryAlert == FirstOfTopBand(result.alerts)
        IN /\ Len(diagnosis.recommendations) = 2
           /\ diagnosis.recommendations[1] = primaryAlert.recommendation
           /\ diagnosis.recommendations[2] = BandBoilerplate(Band(primaryAlert))
           /\ diagnosis.confidence = primaryAlert.confidence
           /\ diagnosis.primary = primaryAlert.message
           /\ diagnosis.description = primaryAlert.description

C11_Witness ==
    /\ Diagnosed /\ Len(result.alerts) = 2
    /\ result.alerts[1].severity = "low" /\ result.alerts[2].severity = "medium"
    /\ diagnosis.recommendations =
           <<result.alerts[1].recommendation, "Monitor for patterns">>
    /\ diagnosis.confidence = result.alerts[1].confidence

InTags(tag) == \E i \in 1..Len(diagnosis.tags) : diagnosis.tags[i] = tag

\* C12: with a non-empty alerts list the tags of the diagnosis contain the
\* primary alert's severity value and the primary alert's type.
C12_TagsHoldSeverityAndType ==
    (Diagnosed /\ result.alerts # <<>>) =>
        LET primaryAlert == FirstOfTopBand(result.alerts)
        IN InTags(primaryAlert.severity) /\ InTags(primaryAlert.type)

-----------------------------------------------------------------------------
(* Properties of CryStorage, checked under LogSpec and StoreSpec *)

\* the ids of a list of instances, in list order
IdsOf(cries) == [i \in 1..Len(cries) |-> cries[i].id]

\* the last min(n, 1000) elements of a list
LastThousand(list) ==
    IF Len(list) <= 1000 THEN list
    ELSE [i \in 1..1000 |-> list[Len(list) - 1000 + i]]

\* C13: after any number of successful saveCry calls on an empty store,
\* getAllCries holds exactly the last min(n, 1000) appended instances in
\* insertion order, never more than 1000, the oldest being the ones evicted.
C13_LastThousandInOrder ==
    LET cries == getAllCries(localStorage)
    IN /\ Len(cries) <= 1000
       /\ IdsOf(cries) = LastThousand(appended)

C13_Witness ==
    /\ Len(appended) = 1001
    /\ Len(getAllCries(localStorage)) = 1000
    /\ getAllCries(localStorage)[1].id = 2
    /\ getAllCries(localStorage)[1000].id = 1001

\* C14: once clearAllCries has returned with no save under way, and until
\* an append is issued, getAllCries is empty and getAudioForCry reports
\* absent for every id passed to a save call before the clear.
C14_ClearLeavesNothing ==
    cleared.active =>
        /\ getAllCries(localStorage) = <<>>
        /\ \A cryId \in cleared.ids :
               getAudioForCry(localStorage, cryId) = Resolved(Null)

\* the set of elements of a list

\* C15: the audio write of saveCryWithAudio is attempted only after the
\* metadata append has been committed; when it fails on the quota the
\* failure is reported, the log is what it was before the attempt, and
\* getAudioForCry reports absent for the id.
C15_AudioFailureKeepsMetadata ==
    /\ [](\A r \in readers : r.id \in Range(appended))
    /\ []((stLast.op = "onload" /\ stLast.quotaExceeded) =>
              /\ stLast.outcome = "warned"
              /\ getAudioForCry(localStorage, stLast.id) = Resolved(Null))
    /\ [][(stLast'.op = "onload" /\ stLast'.quotaExceeded) =>
              localStorage'.history = localStorage.history]_vars

C15_Witness ==
    /\ stLast.op = "onload" /\ stLast.outcome = "warned"
    /\ stLast.id \in Range(IdsOf(getAllCries(localStorage)))
    /\ getAudioForCry(localStorage, stLast.id) = Resolved(Null)

\* C16: a quota failure of a store write, the log write of saveCry or the
\* audio write of saveCryWithAudio, never leaves the store as an exception.
C16_QuotaFailureCaught ==
    stLast.quotaExceeded => stLast.outcome # "threw"

\* C17: an instance saved with a Date timestamp is read back by getAllCries
\* with a Date timestamp of the same instant, and the persisted text holds
\* the timestamp as the envelope {__type: "Date", value: isoString}.
C17_TimestampRoundTrip ==
    LET cries == getAllCries(localStorage)
    IN \A i \in 1..Len(cries) : \A cry \in issued :
          cry.id = cries[i].id =>
              /\ cries[i].timestamp = cry.timestamp
              /\ localStorage.history.items[i].timestamp =
                     ObjectValue("Date",
                                 StringValue(toISOString(cry.timestamp)))

\* C18: getAudioForCry always resolves; to null when the slot is absent or
\* holds a text that does not parse or data that does not decode, and to a
\* blob of the stored bytes and MIME type when an audio write for the id
\* completed and was not cleared.
C18_AudioReadNeverFails ==
    stLast.op = "getAudioForCry" =>
        /\ stLast.outcome = "resolved"
        /\ stLast.readForm \in {"absent", "garbage"} => stLast.value = Null
        /\ localStorage.audio[stLast.id] = BadAudio => stLast.value = Null
        /\ \A w \in audioWritten :
               w.id = stLast.id => stLast.value = w.audioBlob

C18_Witness ==
    /\ stLast.op = "getAudioForCry" /\ stLast.readForm = "garbage"
    /\ stLast.outcome = "resolved" /\ stLast.value = Null

\* C19: with the log absent or unparsable getAllCries returns the empty
\* list, and a saveCry that found the log so and returned leaves a log of
\* exactly the instance it appended.
C19_UnreadableLogIsEmpty ==
    /\ localStorage.history.form \in {"absent", "garbage"} =>
           getAllCries(localStorage) = <<>>
    /\ (stLast.op = "getAllCries" /\ stLast.readForm \in {"absent", "garbage"})
           => (stLast.outcome = "returned" /\ stLast.value.cries = <<>>)
    /\ ( /\ stLast.op \in {"saveCry", "saveCryWithAudio"}
         /\ stLast.outcome = "returned"
         /\ stLast.readForm \in {"absent", "garbage"} )
           => /\ localStorage.history.form = "array"
              /\ IdsOf(getAllCries(localStorage)) = <<stLast.id>>

C19_Witness ==
    /\ stLast.op = "saveCry" /\ stLast.outcome = "returned"
    /\ stLast.readForm = "garbage"
    /\ IdsOf(getAllCries(localStorage)) = <<stLast.id>>

\* C20: with several contexts saving to the same log, every instance whose
\* saveCry returned is in getAllCries unless the cap evicted it (no clear
\* having run).
C20_NoLostUpdate ==
    ~cleared.ever =>
        \A i \in 1..Len(appended) :
            Len(appended) - i < 1000 =>
                appended[i] \in Range(IdsOf(getAllCries(localStorage)))

-----------------------------------------------------------------------------
(* Properties of the detector's fields and buffer, checked under Spec *)

\* the three fields say the same thing about whether a cry is accumulating
FieldsAgree ==
    /\ isDetectingCry <=> detectionStartTime # NoTime
    /\ isDetectingCry <=> analysisBuffer # <<>>

\* C25: between processSample calls isDetectingCry is true exactly when
\* detectionStartTime is non-null and exactly when analysisBuffer is
\* non-empty; and a call on an Idle detector that does not start an
\* accumulation, its block being below the threshold, changes none of the
\* three fields.
C25_FieldsAgreeAndIdleStays ==
    /\ []FieldsAgree
    /\ [][(~isDetectingCry /\ last'.path # "start")
            => /\ last'.path = "idle"
               /\ UNCHANGED <<isDetectingCry, detectionStartTime,
                               analysisBuffer>>]_vars

\* a below-threshold block on a detector that has accumulated and been reset
C25_Witness ==
    /\ last.path = "idle"
    /\ run = "mixed"
    /\ Idle

\* C26: a call on an Accumulating detector with an above-threshold block that
\* does not confirm leaves the detector Accumulating with the same start time
\* and the buffer it had, in order, followed by that one block.
C26_EveryLoudBlockRetained ==
    [][(isDetectingCry /\ last'.path = "loud" /\ last'.ret = "false")
        => /\ isDetectingCry'
           /\ detectionStartTime' = detectionStartTime
           /\ Len(analysisBuffer') = Len(analysisBuffer) + 1
           /\ SubSeq(analysisBuffer', 1, Len(analysisBuffer)) = analysisBuffer
           /\ analysisBuffer'[Len(analysisBuffer')] \in LoudBlocks]_vars

\* the buffer has outgrown the loud gate and validation has rejected it
C26_Witness ==
    /\ last.path = "loud"
    /\ last.attempted
    /\ last.ret = "false"
    /\ Len(analysisBuffer) > LoudGateBlocks + 1

RECURSIVE TotalLength(_)
\* the number of samples held by the blocks of a buffer
TotalLength(buffer) ==
    IF buffer = <<>> THEN 0
    ELSE Len(Head(buffer)) + TotalLength(Tail(buffer))

\* the features are those of the blocks of reported laid end to end
FeaturesOf(features, reported) ==
    /\ \A i \in DOMAIN reported : reported[i] \in LoudBlocks
    /\ features.samples = TotalLength(reported)
    /\ features.sampleRate \in SampleRates
    /\ features.sumSq = SumSq(Concat(reported))
    /\ features.f0Mean = estimateF0(Concat(reported), features.sampleRate)
    /\ features.spectralCentroid
          \in calculateSpectralCentroid(Concat(reported), features.sampleRate)

\* C27: the features handed to the callback are computed from the buffered
\* above-threshold blocks in arrival order, the block of the confirming call
\* included when it is above the threshold and left out when it is below;
\* the duration is their total length over the sample rate.
C27_FeaturesOfBufferedBlocks ==
    [][(last'.callbacks = 1)
        => IF last'.path = "quiet"
           THEN FeaturesOf(last'.features, analysisBuffer)
           ELSE \E audioData \in LoudBlocks :
                   FeaturesOf(last'.features, Append(analysisBuffer, audioData))]_vars

\* a confirmation on the quiet path, of a buffer that opened with a click
C27_Witness ==
    /\ last.callbacks = 1
    /\ last.path = "quiet"
    /\ last.features.samples >= (QuietGateBlocks + 1) * ShortLen

-----------------------------------------------------------------------------
(* Properties of ContinuousMonitor, checked under MonitorSpec and
   MonitorLiveSpec *)

\* C22: while monitoring is active, whenever the recorder has been stopped it
\* is eventually recording again, unless monitoring is stopped.
C22_RecordingResumes ==
    (isMonitoring /\ mediaRecorder.state = "inactive")
        ~> (mediaRecorder.state = "recording" \/ ~isMonitoring)

\* C23: processAudioChunk calls saveCryWithAudio exactly for a chunk that
\* decodes to at least 0.5 s and whose DetectionResult has a riskLevel other
\* than low or a non-empty alerts list; the instance passed carries the
\* result's features, alerts and riskLevel and the confidence of the
\* diagnosis generated from the result, and is the newest entry of the log
\* when the write went through.
C23_PersistedIffSignificant ==
    processed.outcome # "none" =>
        LET chunk == processed.chunk
            detectionResult == chunk.result
        IN /\ processed.saveCalled <=>
                 /\ chunk.decodes
                 /\ chunk.duration >= 5      \* tenths of a second
                 /\ ~chunk.analyzeThrows
                 /\ (detectionResult.riskLevel # "low"
                        \/ detectionResult.alerts # <<>>)
           /\ processed.saveCalled =>
                 /\ processed.cryInstance.features = detectionResult.features
                 /\ processed.cryInstance.alerts = detectionResult.alerts
                 /\ processed.cryInstance.riskLevel = detectionResult.riskLevel
                 /\ processed.cryInstance.confidence =
                        generateDiagnosis(detectionResult).confidence
                 /\ processed.cryInstance.duration = chunk.duration
           /\ (processed.saveCalled /\ ~processed.quotaExceeded
                  /\ stLast.op = "saveCryWithAudio") =>
                 LET stored == getAllCries(localStorage)
                 IN /\ stored # <<>>
                    /\ stored[Len(stored)].id = processed.cryInstance.id

\* a chunk of exactly half a second, stored on the strength of its alerts
\* alone, its riskLevel being low
C23_Witness ==
    /\ processed.saveCalled
    /\ ~processed.quotaExceeded
    /\ processed.chunk.duration = MinChunkTenths
    /\ processed.chunk.result.riskLevel = "low"
    /\ processed.chunk.result.alerts # <<>>
    /\ Len(getAllCries(localStorage)) >= 1

\* a chunk with a critical riskLevel and no alerts is stored as well
C23_WitnessRiskOnly ==
    /\ processed.saveCalled
    /\ processed.chunk.result.riskLevel = "critical"
    /\ processed.chunk.result.alerts = <<>>

-----------------------------------------------------------------------------
(* The Recent Cries list of CryAnalytics, checked under AnalyticsSpec *)

\* the instance saved under an id, as it was passed to saveCry
IssuedCry(id) == CHOOSE cry \in issued : cry.id = id

\* the cries of the log that fall in the selected timeframe at the instant
\* of the latest load, oldest first, as they were saved
MatchingCries ==
    SelectSeq([i \in 1..Len(getAllCries(localStorage)) |->
                  IssuedCry(getAllCries(localStorage)[i].id)],
              LAMBDA cry : InTimeframe(cry, effect.dateNow, selectedTimeframe))

\* C24: once the view has loaded, when more than 10 cries of the log match
\* the selected timeframe, Recent Cries shows the 10 appended last of them.
C24_RecentShowsNewest ==
    (effect.outcome # "none" /\ Len(MatchingCries) > 10) =>
        IdsOf(RecentCries) = IdsOf(sliceTo_Last(MatchingCries, 10))

\* with the timestamps read back as Dates, the ten shown are the ten oldest
C24_ShowsOldest ==
    (effect.outcome = "loaded" /\ Len(MatchingCries) > 10) =>
        IdsOf(RecentCries) = IdsOf(sliceTo(MatchingCries, 10))

-----------------------------------------------------------------------------
(* Eviction and the audio slots, checked under LogSpec *)

\* the ids whose audio slot holds something
StoredAudioIds == { id \in DOMAIN localStorage.audio :
                      localStorage.audio[id] # Absent }

\* the ids of the instances in the log
LoggedIds == { cry.id : cry \in Range(getAllCries(localStorage)) }

\* C29: no step of saveCry or of the saveCry part of saveCryWithAudio changes
\* an audio slot, an eviction by the cap included; and getAudioForCry for an
\* id whose audio was written returns that blob whether or not the id is
\* still in the log.
C29_EvictionKeepsAudio ==
    /\ [][stLast'.op \in {"saveCry", "saveCryWithAudio"}
            => localStorage'.audio = localStorage.audio]_vars
    /\ [](\A w \in audioWritten :
            /\ w.id \in StoredAudioIds
            /\ (stLast.op = "getAudioForCry" /\ stLast.id = w.id)
                  => stLast.value = w.audioBlob)

\* the first instance has been evicted by the cap, its audio slot is still
\* there and has just been read back: a stored audio id that is not in the log
C29_Witness ==
    /\ Len(getAllCries(localStorage)) = HistoryLimit
    /\ 1 \notin LoggedIds
    /\ 1 \in StoredAudioIds
    /\ ~(StoredAudioIds \subseteq LoggedIds)
    /\ stLast.op = "getAudioForCry"
    /\ stLast.id = 1
    /\ stLast.value = FirstRecording.audioBlob

-----------------------------------------------------------------------------
(* Purity of generateDiagnosis, checked under DiagSpec *)

\* C30: the diagnosis of a DetectionResult is the diagnosis of every
\* DetectionResult with the same alerts list, whatever its riskLevel, features
\* and timestamp; and the call leaves its argument and every other variable
\* as they were.
C30_FunctionOfAlertsAlone ==
    /\ [](Diagnosed =>
            \A other \in Results :
                other.alerts = result.alerts
                    => generateDiagnosis(other) = diagnosis)
    /\ [][/\ result' = result
           /\ UNCHANGED <<detectorVars, storeVars, extraVars>>]_vars

\* a result whose riskLevel says low over a list holding a critical alert
C30_Witness ==
    /\ Diagnosed
    /\ result.riskLevel = "low"
    /\ result.features = CryFeatures
    /\ HasSeverity(result.alerts, "critical")
    /\ diagnosis.medicalAttention = "emergency"

-----------------------------------------------------------------------------
(* Properties of estimateF0, checked under EstimateSpec *)

\* the lags estimateF0 may select for a signal at a sample rate
AdmissibleLags(signal, sampleRate) ==
    { p \in (sampleRate \div 1200)..(sampleRate \div 300) : 2 * p < Len(signal) }

\* the largest autocorrelation sum over the admissible lags
MaxCorrelation(signal, sampleRate) ==
    LET lags == AdmissibleLags(signal, sampleRate)
    IN CHOOSE c \in { Correlation(signal, p) : p \in lags } :
          \A p \in lags : Correlation(signal, p) <= c

\* the smallest admissible lag whose autocorrelation sum is the largest
SmallestBestLag(signal, sampleRate) ==
    LET lags == AdmissibleLags(signal, sampleRate)
        best == { p \in lags :
                    Correlation(signal, p) = MaxCorrelation(signal, sampleRate) }
    IN CHOOSE p \in best : \A q \in best : p <= q

\* some admissible lag has a strictly positive autocorrelation sum
HasPositiveLag(signal, sampleRate) ==
    \E p \in AdmissibleLags(signal, sampleRate) : Correlation(signal, p) > 0

\* C21: estimateF0 returns sampleRate / p for the smallest admissible lag p
\* attaining the maximal strictly positive autocorrelation sum, and 0 when no
\* admissible lag has a strictly positive sum.
C21_SmallestBestLag ==
    estimate.called =>
        IF HasPositiveLag(estimate.signal, estimate.sampleRate)
        THEN /\ estimate.f0.num = estimate.sampleRate
             /\ estimate.f0.den =
                    SmallestBestLag(estimate.signal, estimate.sampleRate)
        ELSE estimate.f0.num = 0

\* at 1200 Hz and above the shortest admissible lag is at least one sample
C21_FromOneSample ==
    (estimate.called /\ estimate.sampleRate >= 1200) => C21_SmallestBestLag

C21_Witness ==
    /\ estimate.called
    /\ estimate.sampleRate >= 1200
    /\ HasPositiveLag(estimate.signal, estimate.sampleRate)
    /\ estimate.f0.den > 1

C28_WitnessLagOne ==
    /\ estimate.called
    /\ estimate.f0 = [num |-> 1300, den |-> 1]

=============================================================================
